---- MODULE Spec2Model ----
(***************************************************************************)
(* A model of mitocore: the coordinate algebra (Strand, Locus), the        *)
(* circular sequence model (GeneticSequence) and the trie-based            *)
(* multi-pattern search (SiteSearch).                                      *)
(*                                                                         *)
(* Python strings are sequences of one-letter strings.  An Optional value  *)
(* is a sequence of length 0 (None) or 1 (the value).                      *)
(***************************************************************************)
EXTENDS Integers, Sequences, FiniteSets, TLC

VARIABLES
    tree,        \* SiteSearch._search_tree: path from the root |-> results list
    registered,  \* history of the add_query calls: <<[query, handler], ...>>
    seq,         \* the GeneticSequence under search / under extraction
    pc,          \* position of search_in: "idle", "scan", "done", "failed"
    i,           \* search_in: the starting offset
    depth,       \* search_in: the depth of the walk
    base,        \* search_in: the current trie node (its path from the root)
    results,     \* search_in: the local list of results
    returned,    \* Optional: the list search_in returned
    calls,       \* log of the handler invocations of the current scan
    prev,        \* Optional: what the previous scan of the same target returned
    loc,         \* the Locus last built or used
    arg,         \* the right operand of the last Locus.__add__
    out,         \* outcome of the last __getitem__
    op           \* the last operation of the coordinate / sequence model

vars == <<tree, registered, seq, pc, i, depth, base, results, returned, calls,
          prev, loc, arg, out, op>>

searchVars == <<tree, registered, pc, i, depth, base, results, returned, calls, prev>>

(***************************************************************************)
(* Bounds of the model.                                                    *)
(***************************************************************************)
MaxQueries == 2
MaxTargetLen == 2
MaxSeqLen == 3
MaxPos == 7
MaxLocLen == 4

Max(a, b) == IF a > b THEN a ELSE b
Min(a, b) == IF a < b THEN a ELSE b

Strings(S, n) == UNION {[1..k -> S] : k \in 0..n}

(***************************************************************************)
(* molecular.py: Strand, Locus                                             *)
(***************************************************************************)
Strand_forward == "+"
Strand_reverse == "-"
Strand == <<Strand_forward, Strand_reverse>>

Locus(position, length, strand) ==
    [position |-> position, length |-> length, strand |-> strand]

Locus_add_same_strand(self, other) ==
    Locus(self.position + other.position, other.length, self.strand)

Locus_add(self, other) ==
    LET strand == IF other.strand = Strand_forward
                  THEN self.strand
                  ELSE (IF self.strand = Strand_reverse
                        THEN Strand_forward ELSE Strand_reverse)
        position == self.position + other.position
        length == other.length
    IN  Locus(position, length, strand)

(***************************************************************************)
(* molecular.py: AbstractGeneticSequence                                   *)
(***************************************************************************)
complements_table ==
    ("A" :> "T") @@ ("C" :> "G") @@ ("G" :> "C") @@ ("T" :> "A") @@
    ("S" :> "W") @@ ("W" :> "S") @@
    ("Y" :> "R") @@ ("R" :> "Y") @@
    ("K" :> "M") @@ ("M" :> "K") @@
    ("V" :> "B") @@ ("B" :> "V") @@
    ("D" :> "H") @@ ("H" :> "D") @@
    ("N" :> "N")

inclusions_table ==
    ("S" :> <<"C", "G", "S">>) @@ ("W" :> <<"A", "T", "W">>) @@
    ("Y" :> <<"C", "T", "Y">>) @@ ("R" :> <<"A", "G", "R">>) @@
    ("K" :> <<"G", "T", "K">>) @@ ("M" :> <<"A", "C", "K">>) @@
    ("B" :> <<"C", "G", "T", "S", "Y", "K", "B">>) @@
    ("D" :> <<"A", "G", "T", "R", "D">>) @@
    ("H" :> <<"A", "C", "T", "M", "H">>) @@
    ("V" :> <<"A", "C", "G", "S", "R", "M", "V">>) @@
    ("N" :> <<"A", "C", "G", "T", "S", "W", "Y", "R", "K", "M", "N">>)

\* sequence[::-1]
Reversed(sequence) ==
    [k \in 1..Len(sequence) |-> sequence[Len(sequence) + 1 - k]]

generate_complement(sequence) ==
    [k \in 1..Len(sequence) |->
        IF sequence[k] \in DOMAIN complements_table
        THEN complements_table[sequence[k]] ELSE "-"]

\* itertools.product: the first position varies slowest
RECURSIVE generate_instances(_)
generate_instances(sequence) ==
    IF Len(sequence) = 0 THEN << <<>> >>
    ELSE LET n == Head(sequence)
             choices == IF n \in DOMAIN inclusions_table
                        THEN inclusions_table[n] ELSE <<n>>
             rest == generate_instances(Tail(sequence))
         IN  [k \in 1..(Len(choices) * Len(rest)) |->
                <<choices[((k - 1) \div Len(rest)) + 1]>>
                    \o rest[((k - 1) % Len(rest)) + 1]]

(***************************************************************************)
(* molecular.py: GeneticSequence                                           *)
(***************************************************************************)
None == <<>>
Some(v) == <<v>>

GeneticSequence(strand, reverse_complement_strand) ==
    [forward |-> strand, cached_reverse |-> reverse_complement_strand]

\* the property `reverse`: the value it returns
reverse_of(self) ==
    IF self.cached_reverse = None
    THEN generate_complement(Reversed(self.forward))
    ELSE self.cached_reverse[1]

\* the property `reverse`: the object after the access (the value is cached)
reverse_cached(self) == GeneticSequence(self.forward, Some(reverse_of(self)))

neg(self) == GeneticSequence(reverse_of(self), Some(self.forward))

\* s[a:b] for a, b >= 0
py_slice(s, a, b) == SubSeq(s, a + 1, Min(b, Len(s)))

getitem_unanchored(self, item) ==
    LET len == Len(self.forward)
        start == item.position % len
        stop == start + item.length
        strand == IF item.strand = Strand_forward THEN self.forward ELSE reverse_of(self)
    IN  py_slice(strand, start, Min(stop, len)) \o py_slice(strand, 0, Max(0, stop - len))

\* __getitem__ on a sequence of length >= 1: the forward string of the result
getitem_value(self, item) ==
    LET len == Len(self.forward)
    IN  IF item.strand = Strand_forward
        THEN LET start == item.position % len
                 stop == start + item.length
             IN  py_slice(self.forward, start, Min(stop, len))
                    \o py_slice(self.forward, 0, Max(0, stop - len))
        ELSE LET start == (len - item.position) % len
                 stop == start + item.length
             IN  py_slice(reverse_of(self), start, Min(stop, len))
                    \o py_slice(reverse_of(self), 0, Max(0, stop - len))

(***************************************************************************)
(* search.py: SearchTree, SiteSearch                                       *)
(*                                                                         *)
(* A node of the trie is named by its path from the root; `tree` maps each *)
(* existing node to its results list, and a node has the branch n exactly  *)
(* when its path extended by n is a node.                                  *)
(***************************************************************************)
NoHandler == "None"
Cas == "Cas"
Handlers == {NoHandler, Cas}

\* SearchTree([], {})
SearchTree_empty == (<<>> :> <<>>)

\* instance.forward if strand == Strand.forward else instance.reverse
complement_only(instance, strand) ==
    IF strand = Strand_forward THEN instance ELSE generate_complement(instance)

query_literal(instance, strand) ==
    IF strand = Strand_forward
    THEN instance
    ELSE reverse_of(GeneticSequence(instance, None))

\* the inner loop of add_query, and the append that follows it
insert(t, literal, entry) ==
    LET prefixes == {SubSeq(literal, 1, k) : k \in 0..Len(literal)}
        grown == [p \in (DOMAIN t) \cup prefixes |->
                    IF p \in DOMAIN t THEN t[p] ELSE <<>>]
    IN  [grown EXCEPT ![literal] = Append(@, entry)]

RECURSIVE insert_all(_, _)
insert_all(t, jobs) ==
    IF Len(jobs) = 0 THEN t
    ELSE insert_all(insert(t, Head(jobs).literal, Head(jobs).entry), Tail(jobs))

add_query(t, query, handler) ==
    LET instances == generate_instances(query.forward)
        jobs == [k \in 1..(Len(instances) * Len(Strand)) |->
                    LET instance == instances[((k - 1) \div Len(Strand)) + 1]
                        strand == Strand[((k - 1) % Len(Strand)) + 1]
                    IN  [literal |-> query_literal(instance, strand),
                         entry |-> [strand |-> strand, handler |-> handler]]]
    IN  insert_all(t, jobs)

locus_at_offset(offset, d, strand) == Locus(offset, d, strand)

\* Locus(i if strand == Strand.forward else (i + depth), depth, strand)
match_locus(offset, d, strand) ==
    Locus(IF strand = Strand_forward THEN offset ELSE offset + d, d, strand)

\* what the loop over base.results appends when no handler raises
emit(entries, offset, d) ==
    [k \in 1..Len(entries) |->
        [handler |-> entries[k].handler,
         locus |-> match_locus(offset, d, entries[k].strand)]]

\* a handler may raise on any of its invocations: the index in the node's
\* results of the first invocation that raises, or 0 when none does
first_failure_choices(entries) ==
    {0} \cup {k \in 1..Len(entries) : entries[k].handler # NoHandler}

invocations(emitted, raised) ==
    LET handled == SelectSeq(emitted, LAMBDA r : r.handler # NoHandler)
    IN  [k \in 1..Len(handled) |->
            [handler |-> handled[k].handler, locus |-> handled[k].locus,
             raised |-> raised]]

(***************************************************************************)
(* The motifs registered and the targets scanned.                          *)
(***************************************************************************)
Motifs == { <<>>, <<"A">>, <<"A", "T">>, <<"A", "A", "A">>, <<"M">> }
TargetSymbols == {"A", "T"}
\* every short text, and every motif as a target of its own
Targets == Strings(TargetSymbols, MaxTargetLen) \cup Motifs

EmptySequence == GeneticSequence(<<>>, None)
NoOutcome == [raised |-> "", value |-> <<>>]
ZeroLocus == Locus(0, 0, Strand_forward)

InitSearch ==
    /\ tree = SearchTree_empty
    /\ registered = <<>>
    /\ pc = "idle"
    /\ i = 0
    /\ depth = 0
    /\ base = <<>>
    /\ results = <<>>
    /\ returned = None
    /\ calls = <<>>
    /\ prev = None

Init ==
    /\ InitSearch
    /\ seq = EmptySequence
    /\ loc = ZeroLocus
    /\ arg = [self |-> ZeroLocus, other |-> ZeroLocus]
    /\ out = NoOutcome
    /\ op = "init"

\* SiteSearch.add_query, called between scans (the locals of the last
\* search_in and the list it returned are dead by then, and are cleared)
AddQuery ==
    /\ pc # "scan"
    /\ Len(registered) < MaxQueries
    /\ \E motif \in Motifs, handler \in Handlers :
        /\ tree' = add_query(tree, GeneticSequence(motif, None), handler)
        /\ registered' = Append(registered, [query |-> motif, handler |-> handler])
    /\ pc' = "idle"
    /\ seq' = EmptySequence
    /\ i' = 0
    /\ depth' = 0
    /\ base' = <<>>
    /\ results' = <<>>
    /\ returned' = None
    /\ calls' = <<>>
    /\ prev' = None
    /\ UNCHANGED <<loc, arg, out, op>>

\* SiteSearch.search_in: entry, up to the first test of the for loop
StartSearch ==
    /\ pc # "scan"
    /\ \E t \in Targets :
        /\ seq' = GeneticSequence(t, None)
        /\ prev' = IF pc = "done" /\ seq.forward = t THEN returned ELSE None
        /\ IF Len(t) = 0
           THEN pc' = "done" /\ returned' = Some(<<>>)
           ELSE pc' = "scan" /\ returned' = None
    /\ i' = 0
    /\ depth' = 0
    /\ base' = <<>>
    /\ results' = <<>>
    /\ calls' = <<>>
    /\ UNCHANGED <<tree, registered, loc, arg, out, op>>

\* Descend, reporting the results of the node it leaves
DescendReportsBefore ==
    /\ pc = "scan"
    /\ LET n == seq.forward[((i + depth) % Len(seq.forward)) + 1]
           node == Append(base, n)
       IN  /\ node \in DOMAIN tree
           /\ \E f \in first_failure_choices(tree[base]) :
                LET all == emit(tree[base], i, depth)
                    made == IF f = 0 THEN all ELSE SubSeq(all, 1, f - 1)
                IN  /\ base' = node
                    /\ depth' = depth + 1
                    /\ results' = results \o made
                    /\ calls' = calls \o invocations(made, FALSE)
                                  \o (IF f = 0 THEN <<>>
                                      ELSE invocations(<<all[f]>>, TRUE))
                    /\ pc' = IF f = 0 THEN "scan" ELSE "failed"
    /\ UNCHANGED <<tree, registered, seq, i, returned, prev, loc, arg, out, op>>

\* Descend, going on after a handler that raised
DescendSwallows ==
    /\ pc = "scan"
    /\ LET n == seq.forward[((i + depth) % Len(seq.forward)) + 1]
           node == Append(base, n)
       IN  /\ node \in DOMAIN tree
           /\ \E f \in first_failure_choices(tree[node]) :
                LET all == emit(tree[node], i, depth + 1)
                    before == IF f = 0 THEN all ELSE SubSeq(all, 1, f - 1)
                    after == IF f = 0 THEN <<>> ELSE SubSeq(all, f + 1, Len(all))
                IN  /\ base' = node
                    /\ depth' = depth + 1
                    /\ results' = results \o before \o after
                    /\ calls' = calls \o invocations(before, FALSE)
                                  \o (IF f = 0 THEN <<>>
                                      ELSE invocations(<<all[f]>>, TRUE))
                                  \o invocations(after, FALSE)
                    /\ pc' = "scan"
    /\ UNCHANGED <<tree, registered, seq, i, returned, prev, loc, arg, out, op>>

\* Descend, taking the results it reports out of the node
DescendConsumes ==
    /\ pc = "scan"
    /\ LET n == seq.forward[((i + depth) % Len(seq.forward)) + 1]
           node == Append(base, n)
       IN  /\ node \in DOMAIN tree
           /\ \E f \in first_failure_choices(tree[node]) :
                LET all == emit(tree[node], i, depth + 1)
                    made == IF f = 0 THEN all ELSE SubSeq(all, 1, f - 1)
                IN  /\ base' = node
                    /\ depth' = depth + 1
                    /\ results' = results \o made
                    /\ calls' = calls \o invocations(made, FALSE)
                                  \o (IF f = 0 THEN <<>>
                                      ELSE invocations(<<all[f]>>, TRUE))
                    /\ pc' = IF f = 0 THEN "scan" ELSE "failed"
                    /\ tree' = [tree EXCEPT ![node] = <<>>]
    /\ UNCHANGED <<registered, seq, i, returned, prev, loc, arg, out, op>>

\* one iteration of the while loop: descend, then run the node's results
Descend ==
    /\ pc = "scan"
    /\ LET n == seq.forward[((i + depth) % Len(seq.forward)) + 1]
           node == Append(base, n)
       IN  /\ node \in DOMAIN tree
           /\ \E f \in first_failure_choices(tree[node]) :
                LET all == emit(tree[node], i, depth + 1)
                    made == IF f = 0 THEN all ELSE SubSeq(all, 1, f - 1)
                IN  /\ base' = node
                    /\ depth' = depth + 1
                    /\ results' = results \o made
                    /\ calls' = calls \o invocations(made, FALSE)
                                  \o (IF f = 0 THEN <<>>
                                      ELSE invocations(<<all[f]>>, TRUE))
                    /\ pc' = IF f = 0 THEN "scan" ELSE "failed"
    /\ UNCHANGED <<tree, registered, seq, i, returned, prev, loc, arg, out, op>>

\* DeadEnd, restarting the walk at the same offset
DeadEndStays ==
    /\ pc = "scan"
    /\ LET n == seq.forward[((i + depth) % Len(seq.forward)) + 1]
       IN  Append(base, n) \notin DOMAIN tree
    /\ i' = i
    /\ depth' = 0
    /\ base' = <<>>
    /\ IF i + 1 < Len(seq.forward)
       THEN pc' = "scan" /\ returned' = returned
       ELSE pc' = "done" /\ returned' = Some(results)
    /\ UNCHANGED <<tree, registered, seq, results, calls, prev, loc, arg, out, op>>

\* the while test fails: next offset, or the end of the for loop and the return
DeadEnd ==
    /\ pc = "scan"
    /\ LET n == seq.forward[((i + depth) % Len(seq.forward)) + 1]
       IN  Append(base, n) \notin DOMAIN tree
    /\ i' = i + 1
    /\ depth' = 0
    /\ base' = <<>>
    /\ IF i + 1 < Len(seq.forward)
       THEN pc' = "scan" /\ returned' = returned
       ELSE pc' = "done" /\ returned' = Some(results)
    /\ UNCHANGED <<tree, registered, seq, results, calls, prev, loc, arg, out, op>>

Next == AddQuery \/ StartSearch \/ Descend \/ DeadEnd

Spec == Init /\ [][Next]_vars

\* search_in is an ordinary sequential call: once entered it keeps running
FairSpec == Spec /\ WF_vars(Descend) /\ WF_vars(DeadEnd)

(***************************************************************************)
(* The sequence model on its own: sequences built from text, negated, and  *)
(* indexed by a Locus.                                                     *)
(***************************************************************************)
SequenceSymbols == {"A", "X"}
Texts == Strings(SequenceSymbols, MaxSeqLen)
Loci == [position : (0 - MaxPos)..MaxPos, length : 0..MaxLocLen,
         strand : {Strand_forward, Strand_reverse}]

InitSeq ==
    /\ InitSearch
    /\ seq \in {GeneticSequence(t, None) : t \in Texts}
    /\ loc = ZeroLocus
    /\ arg = [self |-> ZeroLocus, other |-> ZeroLocus]
    /\ out = NoOutcome
    /\ op = "init"

\* GeneticSequence.__getitem__; the modulo raises on a sequence of length 0
GetItem ==
    /\ \E item \in Loci :
        /\ loc' = item
        /\ IF Len(seq.forward) = 0
           THEN /\ out' = [raised |-> "ZeroDivisionError", value |-> <<>>]
                /\ seq' = seq
           ELSE /\ out' = [raised |-> "", value |-> getitem_value(seq, item)]
                /\ seq' = IF item.strand = Strand_forward
                          THEN seq ELSE reverse_cached(seq)
    /\ op' = "getitem"
    /\ UNCHANGED <<arg, searchVars>>

\* GeneticSequence.__neg__
Neg ==
    /\ seq' = neg(seq)
    /\ loc' = ZeroLocus
    /\ out' = NoOutcome
    /\ op' = "neg"
    /\ UNCHANGED <<arg, searchVars>>

NextSeq == GetItem \/ Neg

SpecSeq == InitSeq /\ [][NextSeq]_vars

(***************************************************************************)
(* The coordinate algebra on its own: loci composed with loci.             *)
(***************************************************************************)
InitLocus ==
    /\ InitSearch
    /\ seq = EmptySequence
    /\ loc \in Loci
    /\ arg = [self |-> ZeroLocus, other |-> ZeroLocus]
    /\ out = NoOutcome
    /\ op = "init"

\* Locus.__add__: loc = loc + other
Compose ==
    /\ \E other \in Loci :
        /\ loc.position + other.position \in (0 - MaxPos)..MaxPos
        /\ loc' = Locus_add(loc, other)
        /\ arg' = [self |-> loc, other |-> other]
    /\ op' = "add"
    /\ UNCHANGED <<seq, out, searchVars>>

NextLocus == Compose

SpecLocus == InitLocus /\ [][NextLocus]_vars

(***************************************************************************)
(* Vocabulary of the properties.                                           *)
(***************************************************************************)
Range(s) == {s[k] : k \in 1..Len(s)}

Flip(strand) == IF strand = Strand_forward THEN Strand_reverse ELSE Strand_forward

\* the complement of one symbol; the gap placeholder off the table
Complement(n) == IF n \in DOMAIN complements_table THEN complements_table[n] ELSE "-"

ReverseComplement(w) == [k \in 1..Len(w) |-> Complement(w[Len(w) + 1 - k])]

\* s read circularly from offset for d symbols
Circular(s, offset, d) == [k \in 1..d |-> s[((offset + k - 1) % Len(s)) + 1]]

\* the (concrete instance, strand) pairs one add_query call registers, in order
QueryPairs(q) ==
    LET instances == generate_instances(q.query)
    IN  [k \in 1..(2 * Len(instances)) |->
            [w |-> instances[((k - 1) \div 2) + 1],
             strand |-> Strand[((k - 1) % 2) + 1],
             handler |-> q.handler]]

RECURSIVE RegisteredPairs(_)
RegisteredPairs(reg) ==
    IF Len(reg) = 0 THEN <<>>
    ELSE QueryPairs(Head(reg)) \o RegisteredPairs(Tail(reg))

PairMatches(pr, s, offset, d) ==
    /\ Len(pr.w) = d
    /\ Circular(s, offset, d) =
          (IF pr.strand = Strand_forward THEN pr.w ELSE ReverseComplement(pr.w))

PairLocus(pr, offset, d) ==
    IF pr.strand = Strand_forward
    THEN Locus(offset, d, Strand_forward)
    ELSE Locus(offset + d, d, Strand_reverse)

Longest(pairs) ==
    IF Len(pairs) = 0 THEN 0
    ELSE CHOOSE d \in {Len(pairs[k].w) : k \in 1..Len(pairs)} :
            \A k \in 1..Len(pairs) : Len(pairs[k].w) <= d

\* offsets in increasing order, then depths in increasing order, then the
\* registered pairs in registration order: the matching ones
Expected(reg, s) ==
    LET pairs == RegisteredPairs(reg)
        R == Len(pairs)
        D == Longest(pairs)
        cells == [k \in 1..(Len(s) * D * R) |->
                    [offset |-> (k - 1) \div (D * R),
                     d |-> (((k - 1) \div R) % D) + 1,
                     pr |-> pairs[((k - 1) % R) + 1]]]
        hits == SelectSeq(cells, LAMBDA c : PairMatches(c.pr, s, c.offset, c.d))
    IN  [k \in 1..Len(hits) |->
            [handler |-> hits[k].pr.handler,
             locus |-> PairLocus(hits[k].pr, hits[k].offset, hits[k].d)]]

NoHandlers == \A k \in 1..Len(registered) : registered[k].handler = NoHandler

Site(position, length, strand) ==
    [handler |-> NoHandler, locus |-> Locus(position, length, strand)]

\* C1: with no handler registered, search_in on a non-empty target returns
\* exactly the list of the matches of the registered (instance, strand) pairs,
\* by increasing offset, then increasing depth, forward matches at
\* Locus(i, d, forward) and reverse matches at Locus(i + d, d, reverse).
C1_SearchReturnsAllMatches ==
    (pc = "done" /\ Len(seq.forward) >= 1 /\ NoHandlers)
        => returned = Some(Expected(registered, seq.forward))

\* "A" and "AT" registered, target "AT": the prefix is reported at its own
\* depth, the palindrome on both strands, the "T" as the reverse of "A"
C1_Witness ==
    /\ pc = "done"
    /\ registered = << [query |-> <<"A">>, handler |-> NoHandler],
                       [query |-> <<"A", "T">>, handler |-> NoHandler] >>
    /\ seq.forward = <<"A", "T">>
    /\ returned = Some(<< Site(0, 1, Strand_forward), Site(0, 2, Strand_forward),
                          Site(2, 2, Strand_reverse), Site(2, 1, Strand_reverse) >>)

NonEmptyQueries(reg) == SelectSeq(reg, LAMBDA q : Len(q.query) > 0)

HandlerCalls(rs) == SelectSeq(rs, LAMBDA r : r.handler # NoHandler)

CallsMade == [k \in 1..Len(calls) |-> [handler |-> calls[k].handler, locus |-> calls[k].locus]]

\* C5: an empty motif is never reported: no result and no handler invocation
\* has length 0, and a scan returns, and invokes the handlers for, exactly
\* what it would had the empty motifs not been registered.
C5_EmptyMotifNeverMatches ==
    /\ \A r \in Range(results) : r.locus.length >= 1
    /\ \A c \in Range(calls) : c.locus.length >= 1
    /\ pc = "done" =>
        /\ returned = Some(Expected(NonEmptyQueries(registered), seq.forward))
        /\ CallsMade = HandlerCalls(Expected(NonEmptyQueries(registered), seq.forward))

\* the empty motif registered with a handler, next to a motif that matched
C5_Witness ==
    /\ pc = "done"
    /\ \E k \in 1..Len(registered) :
        registered[k].query = <<>> /\ registered[k].handler = Cas
    /\ returned # Some(<<>>)
    /\ tree[<<>>] # <<>>

\* C6 (state part): a handler invocation that raised is the last invocation
\* of the scan, the scan is then over and has returned nothing.
C6_RaisedIsLast ==
    /\ \A k \in 1..Len(calls) :
        calls[k].raised => (k = Len(calls) /\ pc = "failed" /\ returned = None)
    /\ pc = "failed" => (Len(calls) > 0 /\ calls[Len(calls)].raised)

\* C6: a handler failure ends search_in at once: the failing invocation is
\* the last one, no list is returned, and the walk does not move again (the
\* only steps after it are a new add_query or a new search_in).
C6_HandlerFailurePropagates ==
    /\ []C6_RaisedIsLast
    /\ [][pc = "failed" =>
            (pc' = "idle" \/ (calls' = <<>> /\ results' = <<>> /\ i' = 0 /\ depth' = 0))]_vars

\* a handler raised at offset 0 with a result already made and offsets left
C6_Witness ==
    /\ pc = "failed"
    /\ Len(results) >= 1
    /\ i + 1 < Len(seq.forward)
    /\ Len(calls) >= 2

\* C7: search_in never changes the trie (only add_query does), and a second
\* scan of the same target returns the list the first one returned.
C7_ScanLeavesTrieUnchanged ==
    /\ [][registered' = registered => tree' = tree]_vars
    /\ [](pc = "done" /\ prev # None => returned = prev)

\* a second complete scan of the same target, with results
C7_Witness ==
    /\ pc = "done"
    /\ prev # None
    /\ returned # Some(<<>>)
    /\ Len(registered) = MaxQueries

TrieHeight == CHOOSE d \in {Len(p) : p \in DOMAIN tree} :
                \A p \in DOMAIN tree : Len(p) <= d

\* C8: every scan ends; the depth of a walk never exceeds the length of the
\* longest literal in the trie; a scan that returns has visited every offset.
C8_ScanTerminates ==
    /\ [](pc = "scan" => (depth <= TrieHeight /\ i < Len(seq.forward)))
    /\ [](pc = "done" => (i = Len(seq.forward) /\ returned # None))
    /\ (pc = "scan") ~> (pc \in {"done", "failed"})

\* the walk is deeper than the target is long: it has gone around the circle
C8_Witness ==
    /\ pc = "scan"
    /\ depth = 3
    /\ Len(seq.forward) = 1
    /\ depth = TrieHeight

InstancesRegistered ==
    UNION {Range(generate_instances(registered[k].query)) : k \in 1..Len(registered)}

\* C9: extracting the locus of a result (of length at most the target's)
\* from the target gives locus.length symbols that spell a concrete instance
\* of a registered motif as written, on either strand.
C9_ExtractAgreesWithSearch ==
    \A r \in Range(results) :
        r.locus.length <= Len(seq.forward) =>
            /\ Len(getitem_value(seq, r.locus)) = r.locus.length
            /\ getitem_value(seq, r.locus) \in InstancesRegistered

\* a reverse-strand match and a forward match that wrap past the origin
C9_Witness ==
    /\ \E r \in Range(results) :
        /\ r.locus.strand = Strand_reverse
        /\ r.locus.length = 2
        /\ r.locus.position > Len(seq.forward)
    /\ \E r \in Range(results) :
        /\ r.locus.strand = Strand_forward
        /\ r.locus.length = 2
        /\ r.locus.position + r.locus.length > Len(seq.forward)
    /\ Len(seq.forward) = 2

\* C10: every pattern matches itself: a registered non-empty motif is one of
\* its own instances, and a scan of a target spelling the motif reports
\* Locus(0, |motif|, forward).
C10_PatternMatchesItself ==
    pc = "done" =>
        \A k \in 1..Len(registered) :
            (Len(registered[k].query) > 0 /\ seq.forward = registered[k].query) =>
                /\ registered[k].query \in Range(generate_instances(registered[k].query))
                /\ \E r \in Range(returned[1]) :
                    r.locus = Locus(0, Len(registered[k].query), Strand_forward)

\* the reverse string is the complement of the forward string read backwards
Derived(self) == reverse_of(self) = ReverseComplement(self.forward)

AllInTable(w) == \A k \in 1..Len(w) : w[k] \in DOMAIN complements_table

\* the symbol extraction must give at index k (from 0) of the result
ForwardSymbol(self, p, k) == self.forward[((p + k) % Len(self.forward)) + 1]

ReverseSymbol(self, p, k) ==
    reverse_of(self)[((((Len(self.forward) - p) % Len(self.forward)) + k)
                        % Len(self.forward)) + 1]

ComplementOfForward(self, p, k) ==
    Complement(self.forward[((p - 1 - k) % Len(self.forward)) + 1])

Extracting ==
    /\ op = "getitem"
    /\ Len(seq.forward) >= 1
    /\ loc.length <= Len(seq.forward)

\* C2, as claimed: extraction of n <= L symbols from a sequence of length
\* L >= 1 gives exactly n symbols, the k-th being forward[(p + k) mod L] on
\* the forward strand and reverse[((L - p) mod L + k) mod L], which is
\* complement(forward[(p - 1 - k) mod L]), on the reverse strand.
C2_ExtractAsClaimed ==
    Extracting =>
        /\ out.raised = ""
        /\ Len(out.value) = loc.length
        /\ \A k \in 0..(loc.length - 1) :
            IF loc.strand = Strand_forward
            THEN out.value[k + 1] = ForwardSymbol(seq, loc.position, k)
            ELSE /\ out.value[k + 1] = ReverseSymbol(seq, loc.position, k)
                 /\ out.value[k + 1] = ComplementOfForward(seq, loc.position, k)

\* C2, amended: the same, the reverse-strand symbol being the complement of
\* the forward symbol whenever the reverse string is the reverse complement
\* of the forward string, as it is when every symbol of the sequence is in
\* the complement table.
C2_ExtractIsCircular ==
    /\ AllInTable(seq.forward) => Derived(seq)
    /\ Extracting =>
        /\ out.raised = ""
        /\ Len(out.value) = loc.length
        /\ \A k \in 0..(loc.length - 1) :
            IF loc.strand = Strand_forward
            THEN out.value[k + 1] = ForwardSymbol(seq, loc.position, k)
            ELSE /\ out.value[k + 1] = ReverseSymbol(seq, loc.position, k)
                 /\ Derived(seq) =>
                        out.value[k + 1] = ComplementOfForward(seq, loc.position, k)
        /\ (loc = Locus(Len(seq.forward) - 1, 3, Strand_forward)) =>
                out.value = <<seq.forward[Len(seq.forward)], seq.forward[1], seq.forward[2]>>

\* a whole turn of the reverse strand from a negative position, wrapping
C2_Witness ==
    /\ Extracting
    /\ Len(seq.forward) = 3
    /\ loc = Locus(0 - 2, 3, Strand_reverse)
    /\ Derived(seq)
    /\ seq.forward = <<"A", "X", "A">>
    /\ out.value = <<"T", "T", "-">>

\* C3: composition adds the positions as plain integers, takes the length of
\* the right operand, and keeps the left strand if the right one is forward,
\* flips it otherwise.
C3_LocusComposition ==
    op = "add" =>
        /\ loc.position = arg.self.position + arg.other.position
        /\ loc.length = arg.other.length
        /\ loc.strand = (IF arg.other.strand = Strand_forward
                         THEN arg.self.strand ELSE Flip(arg.self.strand))
        /\ (arg.self = Locus(5, 1, Strand_forward) /\ arg.other = Locus(2, 4, Strand_reverse))
                => loc = Locus(7, 4, Strand_reverse)
        /\ (arg.self = Locus(5, 1, Strand_reverse) /\ arg.other = Locus(2, 4, Strand_reverse))
                => loc = Locus(7, 4, Strand_forward)

\* reverse composed with reverse, and a negative position
C3_Witness ==
    /\ op = "add"
    /\ arg.self = Locus(5, 1, Strand_reverse)
    /\ arg.other = Locus(2, 4, Strand_reverse)
    /\ loc = Locus(7, 4, Strand_forward)

\* C4: a zero-length sequence never causes a division by zero: a scan of it
\* returns the empty list, and an extraction from it raises nothing.
C4_NoDivisionByZero ==
    /\ (pc = "done" /\ Len(seq.forward) = 0) => returned = Some(<<>>)
    /\ (op = "getitem" /\ Len(seq.forward) = 0) => out.raised = ""

====
